---- MODULE Spec2Model ----
(***************************************************************************)
(* Model of the Spider benchmark harness: benchmarks/spider_benchmark.py,  *)
(* the benchmarks/core package and the benchmarks/evaluators package.      *)
(*                                                                         *)
(* Conventions.  A Python string is a sequence of one-character strings.   *)
(* An Optional value is a sequence of length at most one: <<>> is None and *)
(* <<v>> is the value v.                                                   *)
(***************************************************************************)
EXTENDS Integers, Sequences, FiniteSets, TLC

VARIABLES
    self,       \* SpiderBenchmark fields: pipeline_func, _use_llm_judge, ...
    fs,         \* the files of spider_dir: is dev.json / tables.json there
    loader,     \* SpiderDataLoader fields: dev_data, db_schemas
    pc,         \* position of the running call of SpiderBenchmark.run
    args,       \* arguments of the running call of run
    samples,    \* run's local `samples`
    report,     \* run's local `report` (a BenchmarkReport)
    cur,        \* _evaluate_sample's locals for the example in progress
    log,        \* observation of the run: collaborator calls, output, raise
    out_dir,    \* names of the artifacts in output_dir
    clock,      \* the wall clock as last read by datetime.now(), in seconds
    conns,      \* sqlite connections opened by execute_sql and still open
    ev          \* ExecutionEvaluator driver: last inputs and returned values

vars == <<self, fs, loader, pc, args, samples, report, cur, log, out_dir,
          clock, conns, ev>>

runVars == <<self, fs, loader, pc, args, samples, report, cur, log, out_dir,
             clock>>

(***************************************************************************)
(* Optional values                                                         *)
(***************************************************************************)
None == <<>>

Some(v) == <<v>>

(***************************************************************************)
(* Characters and strings                                                  *)
(***************************************************************************)
\* str.lower() on the characters the model uses
LowerChar(c) ==
    CASE c = "A" -> "a"
      [] c = "B" -> "b"
      [] c = "N" -> "n"
      [] OTHER -> c

lower(s) == [i \in 1..Len(s) |-> LowerChar(s[i])]

\* the characters \s matches and str.strip()/str.split() remove
IsSpace(c) == c \in {" ", "\n", "\t"}

\* the class [=<>!]
IsOperatorChar(c) == c \in {"=", "<", ">", "!"}

RECURSIVE lstrip(_)
lstrip(s) ==
    IF s # <<>> /\ IsSpace(Head(s)) THEN lstrip(Tail(s)) ELSE s

RECURSIVE rstrip(_)
rstrip(s) ==
    IF s # <<>> /\ IsSpace(s[Len(s)]) THEN rstrip(SubSeq(s, 1, Len(s) - 1)) ELSE s

strip(s) == rstrip(lstrip(s))

\* str.rstrip(';'): removes every trailing semicolon
RECURSIVE rstrip_semicolon(_)
rstrip_semicolon(s) ==
    IF s # <<>> /\ s[Len(s)] = ";"
    THEN rstrip_semicolon(SubSeq(s, 1, Len(s) - 1))
    ELSE s

\* number of leading characters of s that satisfy the class given by `kind`
RECURSIVE SpanSpace(_)
SpanSpace(s) ==
    IF s # <<>> /\ IsSpace(Head(s)) THEN 1 + SpanSpace(Tail(s)) ELSE 0

RECURSIVE SpanOperator(_)
SpanOperator(s) ==
    IF s # <<>> /\ IsOperatorChar(Head(s)) THEN 1 + SpanOperator(Tail(s)) ELSE 0

Drop(s, n) == SubSeq(s, n + 1, Len(s))

(***************************************************************************)
(* SQLNormalizer                                                           *)
(***************************************************************************)
\* re.sub(r'--.*$', '', sql, flags=re.MULTILINE): from "--" up to, not
\* including, the next newline
RECURSIVE DropToNewline(_)
DropToNewline(s) ==
    IF s = <<>> \/ Head(s) = "\n" THEN s ELSE DropToNewline(Tail(s))

RECURSIVE RemoveLineComments(_)
RemoveLineComments(s) ==
    IF s = <<>> THEN <<>>
    ELSE IF Len(s) >= 2 /\ s[1] = "-" /\ s[2] = "-"
         THEN RemoveLineComments(DropToNewline(s))
         ELSE <<Head(s)>> \o RemoveLineComments(Tail(s))

\* position of the first "*/" of s at index >= from, 0 when there is none
RECURSIVE FindCommentEnd(_, _)
FindCommentEnd(s, from) ==
    IF from + 1 > Len(s) THEN 0
    ELSE IF s[from] = "*" /\ s[from + 1] = "/" THEN from
         ELSE FindCommentEnd(s, from + 1)

\* re.sub(r'/\*.*?\*/', '', sql, flags=re.DOTALL): the shortest closed
\* block comment at each leftmost "/*"
RECURSIVE RemoveBlockComments(_)
RemoveBlockComments(s) ==
    IF s = <<>> THEN <<>>
    ELSE IF Len(s) >= 2 /\ s[1] = "/" /\ s[2] = "*" /\ FindCommentEnd(s, 3) # 0
         THEN RemoveBlockComments(Drop(s, FindCommentEnd(s, 3) + 1))
         ELSE <<Head(s)>> \o RemoveBlockComments(Tail(s))

\* re.sub(r'\s+', ' ', sql)
RECURSIVE CollapseWhitespace(_)
CollapseWhitespace(s) ==
    IF s = <<>> THEN <<>>
    ELSE IF IsSpace(Head(s))
         THEN <<" ">> \o CollapseWhitespace(Drop(s, SpanSpace(s)))
         ELSE <<Head(s)>> \o CollapseWhitespace(Tail(s))

\* sql.replace('"', "'")
NormalizeQuotes(s) == [i \in 1..Len(s) |-> IF s[i] = "\"" THEN "'" ELSE s[i]]

\* re.sub(r'\s*([=<>!]+)\s*', r' \1 ', sql)
RECURSIVE SpaceOperators(_)
SpaceOperators(s) ==
    IF s = <<>> THEN <<>>
    ELSE LET w  == SpanSpace(s)
             t  == Drop(s, w)
             k  == SpanOperator(t)
             u  == Drop(t, k)
         IN  IF k > 0
             THEN <<" ">> \o SubSeq(t, 1, k) \o <<" ">>
                      \o SpaceOperators(Drop(u, SpanSpace(u)))
             ELSE <<Head(s)>> \o SpaceOperators(Tail(s))

\* re.sub(r'\s*C\s*', repl, sql) for a single character C
RECURSIVE SubAround(_, _, _)
SubAround(s, c, repl) ==
    IF s = <<>> THEN <<>>
    ELSE LET t == Drop(s, SpanSpace(s))
         IN  IF t # <<>> /\ Head(t) = c
             THEN repl \o SubAround(Drop(Tail(t), SpanSpace(Tail(t))), c, repl)
             ELSE <<Head(s)>> \o SubAround(Tail(s), c, repl)

\* ' '.join(sql.split())
JoinSplit(s) == strip(CollapseWhitespace(s))

\* SQLNormalizer.normalize
normalize(sql) ==
    IF sql = <<>> THEN <<>>
    ELSE LET s1 == lower(sql)
             s2 == RemoveBlockComments(RemoveLineComments(s1))
             s3 == CollapseWhitespace(s2)
             s4 == rstrip_semicolon(strip(s3))
             s5 == NormalizeQuotes(s4)
             s6 == SpaceOperators(s5)
             s7 == SubAround(s6, ",", <<",", " ">>)
             s8 == SubAround(s7, "(", <<" ", "(">>)
             s9 == SubAround(s8, ")", <<")", " ">>)
         IN  strip(JoinSplit(s9))

\* SQLNormalizer.exact_match
exact_match(gold, predicted) == normalize(gold) = normalize(predicted)

\* evaluators.exact_match.evaluate_exact_match
evaluate_exact_match(gold_sql, predicted_sql) == exact_match(gold_sql, predicted_sql)

(***************************************************************************)
(* ExecutionEvaluator: canonical form of a result set                      *)
(*                                                                         *)
(* A cell is a record [t, n, s]: t is "null" (Python None), "int" (the int  *)
(* n) or "str" (the str s).  A row is a sequence of cells, a result set a  *)
(* sequence of rows.                                                       *)
(***************************************************************************)
NullCell == [t |-> "null", n |-> 0, s |-> <<>>]

IntCell(n) == [t |-> "int", n |-> n, s |-> <<>>]

StrCell(s) == [t |-> "str", n |-> 0, s |-> s]

Digit(d) == CASE d = 0 -> "0" [] d = 1 -> "1" [] d = 2 -> "2" [] d = 3 -> "3"
              [] d = 4 -> "4" [] d = 5 -> "5" [] d = 6 -> "6" [] d = 7 -> "7"
              [] d = 8 -> "8" [] d = 9 -> "9"

\* str(n) for an int n
RECURSIVE NatStr(_)
NatStr(n) == IF n < 10 THEN <<Digit(n)>> ELSE NatStr(n \div 10) \o <<Digit(n % 10)>>

IntStr(n) == IF n < 0 THEN <<"-">> \o NatStr(0 - n) ELSE NatStr(n)

\* str(v) for a cell value that is not None
str(c) == IF c.t = "int" THEN IntStr(c.n) ELSE c.s

\* str(v).lower().strip() if v is not None else "null"
NormalizeCell(c) ==
    IF c.t = "null" THEN <<"n", "u", "l", "l">> ELSE strip(lower(str(c)))

NormalizeRow(row) == [j \in 1..Len(row) |-> NormalizeCell(row[j])]

\* ord(c) for the characters of the model's cells
Ord(c) ==
    CASE c = "\t" -> 9   [] c = "\n" -> 10  [] c = " " -> 32  [] c = "-" -> 45
      [] c = "0" -> 48   [] c = "1" -> 49   [] c = "2" -> 50  [] c = "3" -> 51
      [] c = "4" -> 52   [] c = "5" -> 53   [] c = "6" -> 54  [] c = "7" -> 55
      [] c = "8" -> 56   [] c = "9" -> 57   [] c = "A" -> 65  [] c = "B" -> 66
      [] c = "N" -> 78   [] c = "a" -> 97   [] c = "b" -> 98  [] c = "l" -> 108
      [] c = "n" -> 110  [] c = "u" -> 117

\* Python's < on two strings
RECURSIVE StrLess(_, _)
StrLess(a, b) ==
    IF b = <<>> THEN FALSE
    ELSE IF a = <<>> THEN TRUE
    ELSE IF Head(a) = Head(b) THEN StrLess(Tail(a), Tail(b))
    ELSE Ord(Head(a)) < Ord(Head(b))

\* Python's < on two tuples of strings
RECURSIVE TupleLess(_, _)
TupleLess(r1, r2) ==
    IF r2 = <<>> THEN FALSE
    ELSE IF r1 = <<>> THEN TRUE
    ELSE IF Head(r1) = Head(r2) THEN TupleLess(Tail(r1), Tail(r2))
    ELSE StrLess(Head(r1), Head(r2))

\* insertion of a row into a sorted list, after the rows not greater than it
RECURSIVE InsertSorted(_, _)
InsertSorted(r, sorted) ==
    IF sorted = <<>> THEN <<r>>
    ELSE IF TupleLess(r, Head(sorted)) THEN <<r>> \o sorted
    ELSE <<Head(sorted)>> \o InsertSorted(r, Tail(sorted))

\* a sort that leaves the rows as they come
mutant_SortRows(rows) == rows

\* list.sort() on a list of tuples of strings
RECURSIVE SortRows(_)
SortRows(rows) ==
    IF rows = <<>> THEN <<>>
    ELSE InsertSorted(rows[Len(rows)], SortRows(SubSeq(rows, 1, Len(rows) - 1)))

\* repr(s) of a string without quotes, backslashes or control characters
ReprStr(s) == <<"'">> \o s \o <<"'">>

\* ", ".join(parts)
RECURSIVE JoinComma(_)
JoinComma(parts) ==
    IF parts = <<>> THEN <<>>
    ELSE IF Len(parts) = 1 THEN parts[1]
    ELSE parts[1] \o <<",", " ">> \o JoinComma(Tail(parts))

\* repr(t) of a tuple of strings: a one-element tuple ends in a comma
ReprTuple(t) ==
    <<"(">> \o JoinComma([j \in 1..Len(t) |-> ReprStr(t[j])])
            \o (IF Len(t) = 1 THEN <<",", ")">> ELSE <<")">>)

\* str(l) of a list of tuples of strings
StrList(l) ==
    <<"[">> \o JoinComma([i \in 1..Len(l) |-> ReprTuple(l[i])]) \o <<"]">>

\* normalize_results that also sorts the values of each row
mutant_normalize_results(results) ==
    IF results = None THEN <<>>
    ELSE LET rows == results[1]
             SortCells(row) ==
                 LET sorted == SortRows([j \in 1..Len(row) |-> <<row[j]>>])
                 IN  [j \in 1..Len(row) |-> sorted[j][1]]
         IN  StrList(SortRows([i \in 1..Len(rows) |->
                                  SortCells(NormalizeRow(rows[i]))]))

\* ExecutionEvaluator.normalize_results; results is Optional
normalize_results(results) ==
    IF results = None THEN <<>>
    ELSE LET rows == results[1]
         IN  StrList(SortRows([i \in 1..Len(rows) |-> NormalizeRow(rows[i])]))

\* ExecutionEvaluator.results_match
results_match(results1, results2) ==
    normalize_results(results1) = normalize_results(results2)

(***************************************************************************)
(* ExecutionEvaluator: running a query                                     *)
(*                                                                         *)
(* The environment of one execute_sql call is a record e:                  *)
(*   e.primary, e.alternate  what Path.exists() does for                   *)
(*       <root>/<db_id>/<db_id>.sqlite and <root>/<db_id>/database.sqlite: *)
(*       "exists", "absent", or "oserror" (stat fails with an errno that   *)
(*       exists() re-raises, such as EACCES);                              *)
(*   e.run  how far the body of the try gets: "connect_error"              *)
(*       (sqlite3.connect raises sqlite3.Error), "sql_error" (execute or   *)
(*       fetchall raises sqlite3.Error), "exception" (execute raises       *)
(*       another Exception, such as TypeError for a non-string sql), "ok"; *)
(*   e.rows  the rows fetchall returns;                                    *)
(*   e.finalized  whether the runtime finalizes, when the frame of         *)
(*       execute_sql is left, a connection the code did not close.         *)
(***************************************************************************)
\* ExecutionEvaluator.get_database_path.  raised: the exception of exists()
\* leaves the call; path: the returned Optional path
get_database_path(e) ==
    IF e.primary = "oserror" THEN [raised |-> TRUE, path |-> None]
    ELSE IF e.primary = "exists"
    THEN [raised |-> FALSE, path |-> Some("db_id.sqlite")]
    ELSE IF e.alternate = "oserror" THEN [raised |-> TRUE, path |-> None]
    ELSE IF e.alternate = "exists"
    THEN [raised |-> FALSE, path |-> Some("database.sqlite")]
    ELSE [raised |-> FALSE, path |-> None]

\* ExecutionEvaluator.execute_sql.  raised: an exception leaves the call;
\* ret: the returned (success, results, error_message); left_open: the
\* connections the call opened and left open
execute_sql(e) ==
    LET db_path == get_database_path(e)
    IN  IF db_path.raised
        THEN [raised |-> TRUE, ret |-> <<>>, left_open |-> 0]
        ELSE IF db_path.path = None
        THEN [raised |-> FALSE,
              ret |-> <<FALSE, None, Some("Database not found: ")>>,
              left_open |-> 0]
        ELSE IF e.run = "connect_error"
        THEN [raised |-> FALSE,
              ret |-> <<FALSE, None, Some("SQL Error: ")>>,
              left_open |-> 0]
        ELSE IF e.run = "sql_error"
        THEN [raised |-> FALSE,
              ret |-> <<FALSE, None, Some("SQL Error: ")>>,
              left_open |-> IF e.finalized THEN 0 ELSE 1]
        ELSE IF e.run = "exception"
        THEN [raised |-> FALSE,
              ret |-> <<FALSE, None, Some("Execution Error: ")>>,
              left_open |-> IF e.finalized THEN 0 ELSE 1]
        ELSE [raised |-> FALSE,
              ret |-> <<TRUE, Some(e.rows), None>>,
              left_open |-> 0]

\* evaluate that reports a failed gold query as a mismatch
mutant_evaluate(gold_env, pred_env) ==
    LET gold == execute_sql(gold_env)
        pred == execute_sql(pred_env)
    IN  IF gold.raised
        THEN [raised |-> TRUE, ret |-> <<>>, left_open |-> gold.left_open]
        ELSE IF ~gold.ret[1]
        THEN [raised |-> FALSE,
              ret |-> <<TRUE, Some(FALSE), "Gold query failed: ">>,
              left_open |-> gold.left_open]
        ELSE IF pred.raised
        THEN [raised |-> TRUE, ret |-> <<>>,
              left_open |-> gold.left_open + pred.left_open]
        ELSE IF ~pred.ret[1]
        THEN [raised |-> FALSE,
              ret |-> <<TRUE, Some(FALSE), "Predicted query failed: ">>,
              left_open |-> gold.left_open + pred.left_open]
        ELSE [raised |-> FALSE,
              ret |-> <<TRUE, Some(results_match(gold.ret[2], pred.ret[2])),
                        "Results compared">>,
              left_open |-> gold.left_open + pred.left_open]

\* ExecutionEvaluator.evaluate on the environments of its two execute_sql
\* calls.  ret: the returned (could_execute, results_match, message)
evaluate(gold_env, pred_env) ==
    LET gold == execute_sql(gold_env)
        pred == execute_sql(pred_env)
    IN  IF gold.raised
        THEN [raised |-> TRUE, ret |-> <<>>, left_open |-> gold.left_open]
        ELSE IF ~gold.ret[1]
        THEN [raised |-> FALSE,
              ret |-> <<FALSE, None, "Gold query failed: ">>,
              left_open |-> gold.left_open]
        ELSE IF pred.raised
        THEN [raised |-> TRUE, ret |-> <<>>,
              left_open |-> gold.left_open + pred.left_open]
        ELSE IF ~pred.ret[1]
        THEN [raised |-> FALSE,
              ret |-> <<TRUE, Some(FALSE), "Predicted query failed: ">>,
              left_open |-> gold.left_open + pred.left_open]
        ELSE IF results_match(gold.ret[2], pred.ret[2])
        THEN [raised |-> FALSE,
              ret |-> <<TRUE, Some(TRUE), "Results match">>,
              left_open |-> gold.left_open + pred.left_open]
        ELSE [raised |-> FALSE,
              ret |-> <<TRUE, Some(FALSE), "Results differ">>,
              left_open |-> gold.left_open + pred.left_open]

\* evaluators.execution.evaluate_execution.  ret: the returned
\* (match_result, message)
evaluate_execution(gold_env, pred_env) ==
    LET r == evaluate(gold_env, pred_env)
    IN  IF r.raised THEN r
        ELSE IF ~r.ret[1]
        THEN [raised |-> FALSE, ret |-> <<None, r.ret[3]>>, left_open |-> r.left_open]
        ELSE [raised |-> FALSE, ret |-> <<r.ret[2], r.ret[3]>>, left_open |-> r.left_open]

(***************************************************************************)
(* ExecutionEvaluator driven directly (its public methods called one after *)
(* the other on one process)                                               *)
(***************************************************************************)
\* most connections the model lets stay open at once
MaxConns == 2

ExistsOutcomes == {"exists", "absent", "oserror"}

CellA == StrCell(<<"a">>)

CellB == StrCell(<<"b">>)

\* result sets a query may return
ResultSets ==
    { <<>>,
      << <<CellA>> >>,
      << <<StrCell(<<"A", " ">>)>> >>,
      << <<CellA>>, <<CellB>> >>,
      << <<CellB>>, <<CellA>> >>,
      << <<CellA, CellB>> >>,
      << <<CellB, CellA>> >>,
      << <<NullCell>> >>,
      << <<StrCell(<<"n", "u", "l", "l">>)>> >>,
      << <<IntCell(1)>> >>,
      << <<StrCell(<<"1">>)>> >> }

Env(primary, alternate, run, rows, finalized) ==
    [primary |-> primary, alternate |-> alternate, run |-> run, rows |-> rows,
     finalized |-> finalized]

\* environments of an execute_sql call, one for each way the call can go:
\* no database file is opened; the file is opened and the query returns one
\* of `results`; connect fails; the query fails with the connection open,
\* which the runtime finalizes or (if `leaks`) may not
EnvsOver(alternates, results, leaks) ==
    LET found == {<<"exists", "absent">>} \cup
                 {<<"absent", a>> : a \in alternates \cap {"exists"}}
    IN  {Env("oserror", "absent", "ok", <<>>, TRUE),
         Env("absent", "absent", "ok", <<>>, TRUE)}
        \cup {Env("absent", a, "ok", <<>>, TRUE) : a \in alternates \cap {"oserror"}}
        \cup {Env(f[1], f[2], "ok", rows, TRUE) : f \in found, rows \in results}
        \cup {Env(f[1], f[2], "connect_error", <<>>, TRUE) : f \in found}
        \cup {Env(f[1], f[2], r, <<>>, fin) :
                 f \in found, r \in {"sql_error", "exception"},
                 fin \in (IF leaks THEN BOOLEAN ELSE {TRUE})}

ExecEnvs == EnvsOver(ExistsOutcomes, ResultSets, TRUE)

\* what an environment is, told from the environment alone: looking for the
\* database file fails, there is no database file, the query runs
EnvLookupFails(e) ==
    e.primary = "oserror" \/ (e.primary = "absent" /\ e.alternate = "oserror")

EnvNoDatabase(e) ==
    ~EnvLookupFails(e) /\ e.primary = "absent" /\ e.alternate = "absent"

EnvExecutes(e) == ~EnvLookupFails(e) /\ ~EnvNoDatabase(e) /\ e.run = "ok"

\* two result sets hold the same canonical rows, each as often
SameCanonicalRows(rows1, rows2) ==
    LET canon1 == [i \in 1..Len(rows1) |-> NormalizeRow(rows1[i])]
        canon2 == [i \in 1..Len(rows2) |-> NormalizeRow(rows2[i])]
        Times(r, l) == Cardinality({i \in 1..Len(l) : l[i] = r})
    IN  /\ Len(rows1) = Len(rows2)
        /\ \A i \in 1..Len(canon1) : Times(canon1[i], canon1) = Times(canon1[i], canon2)

\* how the two queries of an evaluation go, told from the environments
ExecutionClass(g, p) ==
    IF EnvLookupFails(g) THEN "raised"
    ELSE IF ~EnvExecutes(g) THEN "gold_failed"
    ELSE IF EnvLookupFails(p) THEN "raised"
    ELSE IF ~EnvExecutes(p) THEN "pred_failed"
    ELSE IF SameCanonicalRows(g.rows, p.rows) THEN "same"
    ELSE "differ"

NoCall ==
    [op |-> "none", gold |-> <<>>, pred |-> <<>>, raised |-> FALSE, ret |-> <<>>]

\* a caller runs evaluator.execute_sql(sql, db_id)
ExecuteSqlCall ==
    \E e \in ExecEnvs :
        LET r == execute_sql(e)
        IN  /\ ev.op = "none"
            /\ conns + r.left_open <= MaxConns
            /\ conns' = conns + r.left_open
            /\ ev' = [op |-> "execute_sql", gold |-> e, pred |-> e,
                      raised |-> r.raised, ret |-> r.ret]
            /\ UNCHANGED runVars

\* a caller runs evaluator.evaluate(gold_sql, predicted_sql, db_id)
EvaluateCall ==
    \E g \in ExecEnvs, p \in ExecEnvs :
        LET r == evaluate(g, p)
        IN  /\ ev.op = "none"
            /\ conns + r.left_open <= MaxConns
            /\ conns' = conns + r.left_open
            /\ ev' = [op |-> "evaluate", gold |-> g, pred |-> p,
                      raised |-> r.raised, ret |-> r.ret]
            /\ UNCHANGED runVars

\* a caller runs evaluate_execution(gold_sql, predicted_sql, db_id, dir)
EvaluateExecutionCall ==
    \E g \in ExecEnvs, p \in ExecEnvs :
        LET r == evaluate_execution(g, p)
        IN  /\ ev.op = "none"
            /\ conns + r.left_open <= MaxConns
            /\ conns' = conns + r.left_open
            /\ ev' = [op |-> "evaluate_execution", gold |-> g, pred |-> p,
                      raised |-> r.raised, ret |-> r.ret]
            /\ UNCHANGED runVars

\* the caller has looked at what the call returned or raised
CallOver ==
    /\ ev.op # "none"
    /\ ev' = NoCall
    /\ UNCHANGED <<runVars, conns>>

(***************************************************************************)
(* Result/Report model (benchmarks/core/results.py)                        *)
(***************************************************************************)
\* BenchmarkResult(...) with the dataclass defaults for the other fields
BenchmarkResult(question, db_id, gold_sql, predicted_sql, exact, is_valid, error, latency_ms) ==
    [question |-> question, db_id |-> db_id, gold_sql |-> gold_sql,
     predicted_sql |-> predicted_sql, exact_match |-> exact,
     execution_match |-> None, llm_judge_match |-> None,
     llm_judge_score |-> 0, llm_judge_reasoning |-> "",
     is_valid_sql |-> is_valid, error |-> error, latency_ms |-> latency_ms]

\* BenchmarkReport()
EmptyReport ==
    [total_samples |-> 0, exact_match_count |-> 0, execution_match_count |-> 0,
     llm_judge_match_count |-> 0, llm_judge_total_score |-> 0,
     valid_sql_count |-> 0, error_count |-> 0, total_latency_ms |-> 0,
     results |-> <<>>]

\* sum(1 for r in results if pred(r)), on the values pred takes
CountTrue(flags) == Cardinality({i \in 1..Len(flags) : flags[i]})

\* a float quotient num / den, kept exact as the pair <<num, den>>; 0.0 is
\* <<0, 1>>, and a pair with den = 0 is the division that raises
\* ZeroDivisionError
Quotient(num, den) == <<num, den>>

Zero == <<0, 1>>

\* equality of two quotients as numbers
SameNumber(q1, q2) == q1[1] * q2[2] = q2[1] * q1[2]

IsExecuted(r) == r.execution_match # None

IsJudged(r) == r.llm_judge_match # None

\* BenchmarkReport.exact_match_accuracy
exact_match_accuracy(rep) ==
    IF rep.total_samples > 0
    THEN Quotient(rep.exact_match_count, rep.total_samples) ELSE Zero

\* execution_accuracy over all samples
mutant_execution_accuracy(rep) ==
    IF rep.total_samples = 0 THEN Zero
    ELSE Quotient(rep.execution_match_count, rep.total_samples)

\* BenchmarkReport.execution_accuracy
execution_accuracy(rep) ==
    LET executed == CountTrue([i \in 1..Len(rep.results) |-> IsExecuted(rep.results[i])])
    IN  IF executed = 0 THEN Zero
        ELSE Quotient(rep.execution_match_count, executed)

\* BenchmarkReport.llm_judge_accuracy
llm_judge_accuracy(rep) ==
    LET judged == CountTrue([i \in 1..Len(rep.results) |-> IsJudged(rep.results[i])])
    IN  IF judged = 0 THEN Zero
        ELSE Quotient(rep.llm_judge_match_count, judged)

\* BenchmarkReport.llm_judge_avg_score
llm_judge_avg_score(rep) ==
    LET judged == CountTrue([i \in 1..Len(rep.results) |-> IsJudged(rep.results[i])])
    IN  IF judged = 0 THEN Zero
        ELSE Quotient(rep.llm_judge_total_score, judged)

\* valid_sql_rate without the test of total_samples
mutant_valid_sql_rate(rep) == Quotient(rep.valid_sql_count, rep.total_samples)

\* BenchmarkReport.valid_sql_rate
valid_sql_rate(rep) ==
    IF rep.total_samples > 0
    THEN Quotient(rep.valid_sql_count, rep.total_samples) ELSE Zero

\* BenchmarkReport.avg_latency_ms
avg_latency_ms(rep) ==
    IF rep.total_samples > 0
    THEN Quotient(rep.total_latency_ms, rep.total_samples) ELSE Zero

(***************************************************************************)
(* SpiderDataLoader (benchmarks/core/data_loader.py)                       *)
(*                                                                         *)
(* A text built by concatenation is the sequence of its pieces.            *)
(***************************************************************************)
\* the examples of dev.json
DevJson ==
    << [question |-> "q1", db_id |-> "db1", query |-> <<"A", "=", "1">>],
       [question |-> "q2", db_id |-> "db2", query |-> <<"b">>] >>

\* the records of tables.json; db2 has none
TablesJson ==
    << [db_id |-> "db1",
        table_names_original |-> <<"t", "u">>,
        column_names_original |-> << <<-1, "*">>, <<0, "id">>, <<1, "x">>, <<0, "nm">> >>,
        column_types |-> <<"text", "number", "text">>,
        primary_keys |-> <<1>>] >>

\* str.upper() on the type tags
upper(t) == CASE t = "text" -> "TEXT" [] t = "number" -> "NUMBER" [] OTHER -> t

\* sep.join(parts) for texts that are sequences of pieces
RECURSIVE Join(_, _)
Join(sep, parts) ==
    IF parts = <<>> THEN <<>>
    ELSE IF Len(parts) = 1 THEN parts[1]
    ELSE parts[1] \o sep \o Join(sep, Tail(parts))

\* the members of a set of positions in increasing order
RECURSIVE InOrder(_)
InOrder(S) ==
    IF S = {} THEN <<>>
    ELSE LET m == CHOOSE x \in S : \A y \in S : y <= x
         IN  Append(InOrder(S \ {m}), m)

\* _build_schema_string that looks up the primary keys by position (from 1)
\* instead of by index (from 0)
mutant_build_schema_string(table_info) ==
    LET table_names  == table_info.table_names_original
        column_names == table_info.column_names_original
        column_types == table_info.column_types
        primary_keys == {table_info.primary_keys[k] :
                            k \in 1..Len(table_info.primary_keys)}
        ColsOf(t) ==
            InOrder({k \in 1..Len(column_names) : column_names[k][1] = t - 1})
        ColDef(k) ==
            <<"    ", column_names[k][2], " ",
              upper(IF k - 1 < Len(column_types) THEN column_types[k] ELSE "TEXT")>>
              \o (IF k \in primary_keys THEN <<" PRIMARY KEY">> ELSE <<>>)
        Stmt(t) ==
            <<"CREATE TABLE ", table_names[t], " (\n">>
              \o Join(<<",\n">>, [j \in 1..Len(ColsOf(t)) |-> ColDef(ColsOf(t)[j])])
              \o <<"\n);">>
        kept == InOrder({t \in 1..Len(table_names) : ColsOf(t) # <<>>})
    IN  Join(<<"\n\n">>, [j \in 1..Len(kept) |-> Stmt(kept[j])])

\* SpiderDataLoader._build_schema_string.  Position k of a Python list is
\* index k - 1.
build_schema_string(table_info) ==
    LET table_names  == table_info.table_names_original
        column_names == table_info.column_names_original
        column_types == table_info.column_types
        primary_keys == {table_info.primary_keys[k] :
                            k \in 1..Len(table_info.primary_keys)}
        ColsOf(t) ==
            InOrder({k \in 1..Len(column_names) : column_names[k][1] = t - 1})
        ColDef(k) ==
            <<"    ", column_names[k][2], " ",
              upper(IF k - 1 < Len(column_types) THEN column_types[k] ELSE "TEXT")>>
              \o (IF (k - 1) \in primary_keys THEN <<" PRIMARY KEY">> ELSE <<>>)
        Stmt(t) ==
            <<"CREATE TABLE ", table_names[t], " (\n">>
              \o Join(<<",\n">>, [j \in 1..Len(ColsOf(t)) |-> ColDef(ColsOf(t)[j])])
              \o <<"\n);">>
        kept == InOrder({t \in 1..Len(table_names) : ColsOf(t) # <<>>})
    IN  Join(<<"\n\n">>, [j \in 1..Len(kept) |-> Stmt(kept[j])])

\* SpiderDataLoader.__init__
NewLoader ==
    [dev_data |-> <<>>, tables |-> [d \in {} |-> <<>>],
     db_schemas |-> [d \in {} |-> <<>>]]

\* load that goes on without tables.json
mutant_load(ld, files) ==
    IF ~files.dev_json THEN [ok |-> FALSE, loader |-> ld, built |-> {}]
    ELSE [ok |-> TRUE, loader |-> [ld EXCEPT !.dev_data = DevJson], built |-> {}]

\* SpiderDataLoader.load.  ok: the returned bool; loader: the fields after;
\* built: the db_ids whose schema text the call built (lines 46-47)
load(ld, files) ==
    IF ~files.dev_json THEN [ok |-> FALSE, loader |-> ld, built |-> {}]
    ELSE IF ~files.tables_json THEN [ok |-> FALSE, loader |-> ld, built |-> {}]
    ELSE LET ids == {TablesJson[k].db_id : k \in 1..Len(TablesJson)}
             Last(d) == CHOOSE k \in 1..Len(TablesJson) :
                           /\ TablesJson[k].db_id = d
                           /\ \A m \in (k + 1)..Len(TablesJson) :
                                 TablesJson[m].db_id # d
             tables == [d \in ids |-> TablesJson[Last(d)]]
         IN  [ok |-> TRUE,
              loader |-> [dev_data |-> DevJson,
                          tables |-> tables,
                          db_schemas |->
                              [d \in ids |-> build_schema_string(tables[d])]
                                  @@ ld.db_schemas],
              built |-> ids]

\* sequences of k different positions of a list of length m
DistinctPositions(k, m) ==
    {q \in [1..k -> 1..m] : \A i, j \in 1..k : i # j => q[i] # q[j]}

\* a min that gives its first argument: the count is not clamped
mutant_Min(a, b) == a

Min(a, b) == IF a < b THEN a ELSE b

\* the slice l[:n]
Prefix(l, n) ==
    IF n >= Len(l) THEN l
    ELSE IF n >= 0 THEN SubSeq(l, 1, n)
    ELSE IF Len(l) + n > 0 THEN SubSeq(l, 1, Len(l) + n)
    ELSE <<>>

\* random.sample(population, k) raises ValueError
sample_raises(population, k) == k < 0 \/ k > Len(population)

\* SpiderDataLoader.get_samples raises
get_samples_raises(dev_data, n, shuffle) ==
    shuffle /\ sample_raises(dev_data, Min(n, Len(dev_data)))

\* SpiderDataLoader.get_samples when it returns: the lists it can return
\* (random.sample seeded by `seed` returns one of the lists of min(n, len)
\* different positions)
get_samples(dev_data, n, shuffle) ==
    IF shuffle
    THEN {[i \in 1..Min(n, Len(dev_data)) |-> dev_data[q[i]]] :
             q \in DistinctPositions(Min(n, Len(dev_data)), Len(dev_data))}
    ELSE {Prefix(dev_data, n)}

\* SpiderDataLoader.get_schema
get_schema(ld, db_id) ==
    IF db_id \in DOMAIN ld.db_schemas THEN ld.db_schemas[db_id] ELSE <<>>

(***************************************************************************)
(* SpiderBenchmark (benchmarks/spider_benchmark.py)                        *)
(***************************************************************************)
\* largest n_samples a caller passes
MaxN == 3

\* last second the wall clock reaches
MaxClock == 1

\* databases_dir values a caller passes
Dirs == {<<>>, <<"d", "b", "s">>}

\* a truthy Optional[str]
Truthy(d) == d # None /\ d[1] # <<>>

\* a pipeline result that is not a str
NotAString == <<"<not a str>">>

\* what the pipeline function can return
PipelineReturns ==
    { <<"a", " ", "=", " ", "1", ";">>, <<"B", " ">>, NotAString }

\* latencies the timer can measure, in ms
Latencies == {3}

\* what judge_sql_equivalence can return
JudgeResults ==
    { [is_equivalent |-> TRUE,  score |-> 4, reasoning |-> "equivalent"],
      [is_equivalent |-> FALSE, score |-> 1, reasoning |-> "different"] }

\* the judge call raises
JudgeRaises == [raises |-> TRUE]

JudgeOutcomes ==
    {JudgeRaises} \cup {[raises |-> FALSE, result |-> j] : j \in JudgeResults}

\* environments of the execute_sql calls of a run: the runtime finalizes
\* what the code leaves open
RunExecEnvs == EnvsOver({"absent"}, {<<>>, << <<CellA>> >>}, FALSE)

\* SpiderBenchmark.__init__
NewBenchmark(pipeline_func) ==
    [pipeline_func |-> pipeline_func, use_llm_judge |-> FALSE,
     use_execution |-> FALSE, databases_dir |-> None, judge_client |-> FALSE]

\* enable_llm_judge that makes the client and does not store the flag
mutant_enable_llm_judge(slf, enabled) ==
    [slf EXCEPT !.judge_client = IF enabled THEN TRUE ELSE @]

\* SpiderBenchmark.enable_llm_judge as a function of the fields
enable_llm_judge(slf, enabled) ==
    [slf EXCEPT !.use_llm_judge = enabled,
                !.judge_client = IF enabled THEN TRUE ELSE @]

\* SpiderBenchmark.enable_execution_eval as a function of the fields
enable_execution_eval(slf, databases_dir) ==
    [slf EXCEPT !.use_execution = TRUE, !.databases_dir = Some(databases_dir)]

NoArgs ==
    [n_samples |-> 0, shuffle |-> FALSE, verbose |-> FALSE,
     save_results |-> FALSE, use_llm_judge |-> FALSE]

ArgSets ==
    [n_samples : 0..MaxN, shuffle : BOOLEAN, verbose : BOOLEAN,
     save_results : BOOLEAN, use_llm_judge : BOOLEAN]

\* what a call of run has done so far: the exception that left it, per
\* appended example what _evaluate_sample did, whether the report was
\* printed, the artifact written
NoLog ==
    [raised |-> None, trace |-> <<>>, printed |-> FALSE, saved |-> None]

\* ErrorResult without is_valid_sql=False: the dataclass default is True
mutant_ErrorResult(sample, e, latency_ms) ==
    BenchmarkResult(sample.question, sample.db_id, sample.query, <<>>,
                    FALSE, TRUE, Some(e), latency_ms)

\* the except block of _evaluate_sample: the result it builds
ErrorResult(sample, e, latency_ms) ==
    BenchmarkResult(sample.question, sample.db_id, sample.query, <<>>,
                    FALSE, FALSE, Some(e), latency_ms)

\* the statement after the sampling loop that runs next
AfterLoop(a) ==
    IF a.verbose THEN "reporting"
    ELSE IF a.save_results THEN "persisting" ELSE "returned"

\* the step after the judge evaluation (line 149)
AfterJudge(slf) ==
    IF slf.use_execution /\ Truthy(slf.databases_dir) THEN "execution"
    ELSE "append"

\* line 145 without the test of _use_llm_judge
mutant_AfterPipeline(slf) == AfterJudge(slf)

\* the step after the result is built (line 145)
AfterPipeline(slf) ==
    IF slf.use_llm_judge THEN "judge" ELSE AfterJudge(slf)

\* _evaluate_llm_judge without the exact-match short cut
mutant_evaluate_llm_judge(result, exact, rep, j) ==
    IF result.is_valid_sql
    THEN IF j.raises
         THEN [raised |-> TRUE, called |-> TRUE, result |-> result, report |-> rep]
         ELSE [raised |-> FALSE, called |-> TRUE,
               result |-> [result EXCEPT
                              !.llm_judge_match = Some(j.result.is_equivalent),
                              !.llm_judge_score = j.result.score,
                              !.llm_judge_reasoning = j.result.reasoning],
               report |-> [rep EXCEPT
                              !.llm_judge_match_count =
                                  IF j.result.is_equivalent THEN @ + 1 ELSE @,
                              !.llm_judge_total_score = @ + j.result.score]]
    ELSE [raised |-> FALSE, called |-> FALSE, result |-> result, report |-> rep]

\* SpiderBenchmark._evaluate_llm_judge.  j: what the judge does if called.
\* raised: the judge's exception leaves the call; called: the judge was
\* invoked; result, report: the two objects after the call
evaluate_llm_judge(result, exact, rep, j) ==
    IF exact
    THEN [raised |-> FALSE, called |-> FALSE,
          result |-> [result EXCEPT !.llm_judge_match = Some(TRUE),
                                    !.llm_judge_score = 5,
                                    !.llm_judge_reasoning = "Exact match"],
          report |-> [rep EXCEPT !.llm_judge_match_count = @ + 1,
                                 !.llm_judge_total_score = @ + 5]]
    ELSE IF result.is_valid_sql
    THEN IF j.raises
         THEN [raised |-> TRUE, called |-> TRUE, result |-> result, report |-> rep]
         ELSE [raised |-> FALSE, called |-> TRUE,
               result |-> [result EXCEPT
                              !.llm_judge_match = Some(j.result.is_equivalent),
                              !.llm_judge_score = j.result.score,
                              !.llm_judge_reasoning = j.result.reasoning],
               report |-> [rep EXCEPT
                              !.llm_judge_match_count =
                                  IF j.result.is_equivalent THEN @ + 1 ELSE @,
                              !.llm_judge_total_score = @ + j.result.score]]
    ELSE [raised |-> FALSE, called |-> FALSE, result |-> result, report |-> rep]

\* SpiderBenchmark._evaluate_execution
evaluate_execution_step(result, rep, gold_env, pred_env) ==
    LET r == evaluate_execution(gold_env, pred_env)
    IN  IF r.raised
        THEN [raised |-> TRUE, result |-> result, report |-> rep]
        ELSE [raised |-> FALSE,
              result |-> [result EXCEPT !.execution_match = r.ret[1]],
              report |-> [rep EXCEPT
                            !.execution_match_count =
                                IF r.ret[1] = Some(TRUE) THEN @ + 1 ELSE @]]

\* lines 153-156 of _evaluate_sample
update_counters(rep, exact, is_valid) ==
    [rep EXCEPT !.exact_match_count = IF exact THEN @ + 1 ELSE @,
                !.valid_sql_count = IF is_valid THEN @ + 1 ELSE @]

\* append_result that keeps only the results without an error
mutant_append_result(rep, result) ==
    IF result.error # None THEN rep
    ELSE [rep EXCEPT !.results = Append(@, result),
                     !.total_samples = @ + 1,
                     !.total_latency_ms = @ + result.latency_ms]

\* lines 101-103 of run
append_result(rep, result) ==
    [rep EXCEPT !.results = Append(@, result),
                !.total_samples = @ + 1,
                !.total_latency_ms = @ + result.latency_ms]

\* the sample _evaluate_sample is called with: the loop has been through
\* as many samples as the trace has entries
CurrentSample == samples[Len(log.trace) + 1]

\* an except block that marks the result built so far as failed instead of
\* building a new one
mutant_Fail(e, latency_ms, c) ==
    /\ cur' = Some([c EXCEPT !.result = [c.result EXCEPT !.exact_match = FALSE,
                                                         !.is_valid_sql = FALSE,
                                                         !.error = Some(e)],
                             !.failed = TRUE])
    /\ pc' = "append"

\* _evaluate_sample is left through its except block with exception e
Fail(e, latency_ms, c) ==
    /\ cur' = Some([c EXCEPT !.result = ErrorResult(CurrentSample, e, latency_ms),
                             !.failed = TRUE])
    /\ pc' = "append"

----------------------------------------------------------------------------
Init ==
    /\ self \in {NewBenchmark(f) : f \in BOOLEAN}
    /\ fs \in [dev_json : BOOLEAN, tables_json : BOOLEAN]
    /\ loader = NewLoader
    /\ pc = "idle"
    /\ args = NoArgs
    /\ samples = <<>>
    /\ report = EmptyReport
    /\ cur = None
    /\ log = NoLog
    /\ out_dir = {}
    /\ clock = 0
    /\ conns = 0
    /\ ev = NoCall

\* benchmark.set_pipeline(f)
SetPipeline ==
    /\ pc = "idle"
    /\ self' = [self EXCEPT !.pipeline_func = TRUE]
    /\ UNCHANGED <<fs, loader, pc, args, samples, report, cur, log, out_dir,
                   clock, conns, ev>>

\* benchmark.enable_llm_judge(enabled)
EnableLlmJudge ==
    /\ pc = "idle"
    /\ \E enabled \in BOOLEAN : self' = enable_llm_judge(self, enabled)
    /\ UNCHANGED <<fs, loader, pc, args, samples, report, cur, log, out_dir,
                   clock, conns, ev>>

\* benchmark.enable_execution_eval(databases_dir)
EnableExecutionEval ==
    /\ pc = "idle"
    /\ \E d \in Dirs : self' = enable_execution_eval(self, d)
    /\ UNCHANGED <<fs, loader, pc, args, samples, report, cur, log, out_dir,
                   clock, conns, ev>>

\* benchmark.run(...) is called: lines 83-84
RunBegin ==
    /\ pc = "idle"
    /\ \E a \in ArgSets :
          /\ args' = a
          /\ IF self.pipeline_func
             THEN pc' = "loading" /\ log' = NoLog
             ELSE pc' = "raised" /\ log' = [NoLog EXCEPT !.raised = Some("ValueError")]
    /\ UNCHANGED <<self, fs, loader, samples, report, cur, out_dir, clock,
                   conns, ev>>

\* lines 86-87
Load ==
    /\ pc = "loading"
    /\ LET r == load(loader, fs)
       IN  /\ loader' = r.loader
           /\ IF r.ok
              THEN pc' = "sampling" /\ log' = log
              ELSE pc' = "raised" /\ log' = [log EXCEPT !.raised = Some("RuntimeError")]
    /\ UNCHANGED <<self, fs, args, samples, report, cur, out_dir, clock, conns, ev>>

\* lines 89-97 and, for an empty sample list, the loop that ends at once.
\* The arguments not read again are dropped.
Sample ==
    /\ pc = "sampling"
    /\ self' = IF args.use_llm_judge THEN enable_llm_judge(self, TRUE) ELSE self
    /\ \E smp \in get_samples(loader.dev_data, args.n_samples, args.shuffle) :
          /\ samples' = smp
          /\ pc' = IF smp = <<>> THEN AfterLoop(args) ELSE "pipeline"
    /\ report' = EmptyReport
    /\ args' = [NoArgs EXCEPT !.verbose = args.verbose,
                              !.save_results = args.save_results]
    /\ UNCHANGED <<fs, loader, cur, log, out_dir, clock, conns, ev>>

\* _evaluate_sample, lines 119-142 (and 158-170 when one of them raises)
Pipeline ==
    /\ pc = "pipeline"
    /\ \E latency_ms \in Latencies :
       LET sample == CurrentSample
           schema == get_schema(loader, sample.db_id)
           c0 == [result |-> ErrorResult(sample, "", 0), pipeline |-> "raised", exact_match |-> FALSE,
                  is_valid |-> FALSE, judge_called |-> FALSE,
                  execution |-> "none", failed |-> FALSE]
       IN  \/ /\ Fail("pipeline failed", latency_ms, c0)
              /\ report' = [report EXCEPT !.error_count = @ + 1]
           \/ \E predicted_sql \in PipelineReturns :
                 IF predicted_sql = NotAString
                 THEN /\ Fail("exact_match failed", latency_ms,
                              [c0 EXCEPT !.pipeline = "returned"])
                      /\ report' = [report EXCEPT !.error_count = @ + 1]
                 ELSE \E is_valid \in BOOLEAN :
                        LET exact == evaluate_exact_match(sample.query, predicted_sql)
                        IN  /\ cur' = Some([c0 EXCEPT
                                  !.result = BenchmarkResult(sample.question,
                                      sample.db_id, sample.query, predicted_sql,
                                      exact, is_valid, None, latency_ms),
                                  !.pipeline = "returned",
                                  !.exact_match = exact,
                                  !.is_valid = is_valid])
                            /\ pc' = AfterPipeline(self)
                            /\ report' = report
    /\ UNCHANGED <<self, fs, loader, args, samples, log, out_dir, clock, conns, ev>>

\* _evaluate_sample, lines 145-146
Judge ==
    /\ pc = "judge"
    /\ \E j \in JudgeOutcomes :
       LET c == cur[1]
           r == evaluate_llm_judge(c.result, c.exact_match, report, j)
       IN  IF r.raised
           THEN /\ Fail("judge failed", c.result.latency_ms,
                        [c EXCEPT !.judge_called = r.called])
                /\ report' = [r.report EXCEPT !.error_count = @ + 1]
           ELSE /\ cur' = Some([c EXCEPT !.result = r.result,
                                         !.judge_called = r.called])
                /\ report' = r.report
                /\ pc' = AfterJudge(self)
    /\ UNCHANGED <<self, fs, loader, args, samples, log, out_dir, clock, conns, ev>>

\* _evaluate_sample, lines 149-150
Execution ==
    /\ pc = "execution"
    /\ \E g \in RunExecEnvs, p \in RunExecEnvs :
       LET c == [cur[1] EXCEPT !.execution = ExecutionClass(g, p)]
           r == evaluate_execution_step(c.result, report, g, p)
       IN  IF r.raised
           THEN /\ Fail("execution failed", c.result.latency_ms, c)
                /\ report' = [r.report EXCEPT !.error_count = @ + 1]
           ELSE /\ cur' = Some([c EXCEPT !.result = r.result])
                /\ report' = r.report
                /\ pc' = "append"
    /\ UNCHANGED <<self, fs, loader, args, samples, log, out_dir, clock, conns, ev>>

\* _evaluate_sample, lines 153-156 and 172, then run, lines 101-106; after
\* the last sample the loop is left
AppendResult ==
    /\ pc = "append"
    /\ LET c == cur[1]
           counted == IF c.failed THEN report
                      ELSE update_counters(report, c.exact_match, c.is_valid)
           rep == append_result(counted, c.result)
           last == Len(log.trace) + 1 >= Len(samples)
       IN  /\ report' = rep
           /\ pc' = IF last THEN AfterLoop(args) ELSE "pipeline"
           /\ log' = [log EXCEPT
                        !.trace = Append(@, [c EXCEPT !.result = "dropped"])]
    /\ cur' = None
    /\ UNCHANGED <<self, fs, loader, args, samples, out_dir, clock, conns, ev>>

\* run, lines 108-110 (verbose)
Report ==
    /\ pc = "reporting"
    /\ pc' = IF args.save_results THEN "persisting" ELSE "returned"
    /\ log' = [log EXCEPT !.printed = TRUE]
    /\ UNCHANGED <<self, fs, loader, args, samples, report, cur, out_dir, clock,
                   conns, ev>>

\* run, lines 112-115 (save_results): _save_results names the artifact by the
\* second datetime.now() returns
SaveResults ==
    /\ pc = "persisting"
    /\ \E now \in clock..MaxClock :
          /\ clock' = now
          /\ out_dir' = out_dir \cup {now}
          /\ log' = [log EXCEPT !.saved = Some(now)]
    /\ pc' = "returned"
    /\ UNCHANGED <<self, fs, loader, args, samples, report, cur, conns, ev>>

\* the call of run is over: the caller has the report (line 115) or the
\* exception, and the frame of run is gone
Return ==
    /\ pc \in {"returned", "raised"}
    /\ pc' = "idle"
    /\ args' = NoArgs
    /\ samples' = <<>>
    /\ report' = EmptyReport
    /\ cur' = None
    /\ log' = NoLog
    /\ UNCHANGED <<self, fs, loader, out_dir, clock, conns, ev>>

Next ==
    \/ SetPipeline
    \/ EnableLlmJudge
    \/ EnableExecutionEval
    \/ RunBegin
    \/ Load
    \/ Sample
    \/ Pipeline
    \/ Judge
    \/ Execution
    \/ AppendResult
    \/ Report
    \/ SaveResults
    \/ Return

Spec == Init /\ [][Next]_vars

\* a process that only drives an ExecutionEvaluator
InitExec ==
    /\ Init
    /\ self = NewBenchmark(FALSE)
    /\ fs = [dev_json |-> TRUE, tables_json |-> TRUE]

NextExec ==
    \/ ExecuteSqlCall
    \/ EvaluateCall
    \/ EvaluateExecutionCall
    \/ CallOver

SpecExec == InitExec /\ [][NextExec]_vars

(***************************************************************************)
(* SQLNormalizer driven directly.  Of a call of a pure function, ev.gold   *)
(* is the first argument, ev.pred the second (if any), ev.ret the value.   *)
(***************************************************************************)
\* most tokens in a text handed to normalize
MaxTokens == 4

\* what the texts handed to normalize are made of
SqlTokens ==
    { <<"a">>, <<"B">>, <<" ">>, <<"\n">>, <<";">>, <<"-">>, <<"/", "*">>,
      <<"*", "/">>, <<"=">>, <<"(">> }

RECURSIVE TextsOf(_)
TextsOf(k) ==
    IF k = 0 THEN {<<>>}
    ELSE LET shorter == TextsOf(k - 1)
         IN  shorter \cup {t \o s : t \in SqlTokens, s \in shorter}

SqlTexts == TextsOf(MaxTokens)

\* a caller runs SQLNormalizer.normalize(sql)
NormalizeCall ==
    \E sql \in SqlTexts :
        /\ ev.op = "none"
        /\ ev' = [op |-> "normalize", gold |-> sql, pred |-> <<>>,
                  raised |-> FALSE, ret |-> normalize(sql)]
        /\ UNCHANGED <<runVars, conns>>

\* a caller runs SQLNormalizer.exact_match(gold, predicted) on a text and
\* its normal form
ExactMatchCall ==
    \E sql \in SqlTexts :
        /\ ev.op = "none"
        /\ ev' = [op |-> "exact_match", gold |-> sql, pred |-> normalize(sql),
                  raised |-> FALSE, ret |-> exact_match(sql, normalize(sql))]
        /\ UNCHANGED <<runVars, conns>>

NextNorm ==
    \/ NormalizeCall
    \/ ExactMatchCall
    \/ CallOver

SpecNorm == InitExec /\ [][NextNorm]_vars

(***************************************************************************)
(* normalize_results and results_match driven directly                     *)
(***************************************************************************)
\* most rows in a result set handed to results_match
MaxRows == 2

\* numbers of columns of the result sets
Widths == {1, 2}

\* values of the columns: "a", "A " (the same after str/lower/strip) and "b"
ColumnCells == {CellA, StrCell(<<"A", " ">>), CellB}

\* the result sets of at most MaxRows rows, all rows of one width
RowLists ==
    UNION { UNION { [1..k -> [1..w -> ColumnCells]] : k \in 0..MaxRows } :
            w \in Widths }

\* rows in the order q
Permute(rows, q) == [i \in 1..Len(rows) |-> rows[q[i]]]

\* rows with the values at columns i and j of row k exchanged
SwapColumns(rows, k, i, j) ==
    [rows EXCEPT ![k] = [@ EXCEPT ![i] = rows[k][j], ![j] = rows[k][i]]]

\* the result sets results_match compares rows with: rows in another order,
\* rows with two columns of one row exchanged
Rearranged(rows) ==
    {Permute(rows, q) : q \in DistinctPositions(Len(rows), Len(rows))}
    \cup {SwapColumns(rows, k, 1, 2) : k \in {k \in 1..Len(rows) : Len(rows[k]) = 2}}

\* a caller runs evaluator.normalize_results(results)
NormalizeResultsCall ==
    \E results \in {None} \cup {Some(rows) : rows \in RowLists} :
        /\ ev.op = "none"
        /\ ev' = [op |-> "normalize_results", gold |-> results, pred |-> <<>>,
                  raised |-> FALSE, ret |-> normalize_results(results)]
        /\ UNCHANGED <<runVars, conns>>

\* a caller runs evaluator.results_match(results1, results2)
ResultsMatchCall ==
    \E rows \in RowLists :
       \E other \in Rearranged(rows) :
          /\ ev.op = "none"
          /\ ev' = [op |-> "results_match", gold |-> rows, pred |-> other,
                    raised |-> FALSE,
                    ret |-> results_match(Some(rows), Some(other))]
          /\ UNCHANGED <<runVars, conns>>

NextRows ==
    \/ NormalizeResultsCall
    \/ ResultsMatchCall
    \/ CallOver

SpecRows == InitExec /\ [][NextRows]_vars

(***************************************************************************)
(* SpiderDataLoader driven directly                                        *)
(***************************************************************************)
\* the examples of the datasets get_samples is called on
Examples == DevJson \o <<[question |-> "q3", db_id |-> "db1", query |-> <<"c">>]>>

\* datasets of 0 to 3 examples
Datasets == {SubSeq(Examples, 1, k) : k \in 0..Len(Examples)}

\* a caller runs loader.get_samples(n, shuffle, seed) on a loaded dataset
GetSamplesCall ==
    \E dev_data \in Datasets, n \in (-1)..MaxN, shuffle \in BOOLEAN :
        LET call == [dev_data |-> dev_data, n |-> n, shuffle |-> shuffle]
        IN  /\ ev.op = "none"
            /\ IF get_samples_raises(dev_data, n, shuffle)
               THEN ev' = [op |-> "get_samples", gold |-> call, pred |-> <<>>,
                           raised |-> TRUE, ret |-> <<>>]
               ELSE \E smp \in get_samples(dev_data, n, shuffle) :
                       ev' = [op |-> "get_samples", gold |-> call, pred |-> <<>>,
                              raised |-> FALSE, ret |-> smp]
            /\ UNCHANGED <<runVars, conns>>

\* most entries in column_names_original of a metadata record
MaxCols == 3

\* the name of the column at each position of column_names_original
ColNames == <<"c0", "c1", "c2", "c3", "c4", "c5">>

TableNameLists == {<<"t">>, <<"t", "u">>}

\* table indexes of the columns: the sentinel, the two tables
Owners == {-1, 0, 1}

PrimaryKeyLists == {<<>>, <<1>>, <<0, 2>>}

\* metadata records with n columns; the type list may be too short
TableInfosOf(n) ==
    { [table_names_original |-> tn,
       column_names_original |-> [k \in 1..n |-> <<owner[k], ColNames[k]>>],
       column_types |-> [k \in 1..m |-> "number"],
       primary_keys |-> pk] :
      tn \in TableNameLists, owner \in [1..n -> Owners], m \in 0..n,
      pk \in PrimaryKeyLists }

TableInfos == UNION {TableInfosOf(n) : n \in 0..MaxCols}

\* load runs self._build_schema_string(table_info) on a record of
\* tables.json
BuildSchemaCall ==
    \E table_info \in TableInfos :
        /\ ev.op = "none"
        /\ ev' = [op |-> "build_schema_string", gold |-> table_info,
                  pred |-> <<>>, raised |-> FALSE,
                  ret |-> build_schema_string(table_info)]
        /\ UNCHANGED <<runVars, conns>>

NextLoader ==
    \/ GetSamplesCall
    \/ BuildSchemaCall
    \/ CallOver

SpecLoader == InitExec /\ [][NextLoader]_vars

----------------------------------------------------------------------------
(***************************************************************************)
(* Properties                                                              *)
(***************************************************************************)
\* the run is between two iterations of the sampling loop, or past the loop
AtLoopBoundary == pc \in {"pipeline", "reporting", "persisting", "returned"}

Evaluating == pc \in {"pipeline", "judge", "execution", "append"}

Results == report.results

\* C1: when the pipeline raises for an example, the result recorded for it
\* has predicted_sql "", exact_match and is_valid_sql false and an error
\* text; that step adds exactly 1 to error_count and changes nothing else of
\* the report; the run goes on: it never ends in an exception once the loop
\* has begun, and a run that returns has evaluated every sample.
C1_ErrorResultShape(r) ==
    /\ r.predicted_sql = <<>>
    /\ r.exact_match = FALSE
    /\ r.is_valid_sql = FALSE
    /\ r.error # None

C1_State ==
    /\ \A i \in 1..Len(Results) :
          log.trace[i].pipeline = "raised" => C1_ErrorResultShape(Results[i])
    /\ (cur # None /\ cur[1].pipeline = "raised") =>
          /\ C1_ErrorResultShape(cur[1].result)
          /\ pc = "append"
    /\ pc = "returned" => Len(log.trace) = Len(samples)

C1_Step ==
    /\ (pc = "pipeline" /\ cur' # None /\ cur'[1].pipeline = "raised") =>
          report' = [report EXCEPT !.error_count = @ + 1]
    /\ Evaluating => pc' # "raised"

C1_PipelineFailureIsolated == [](C1_State) /\ [][C1_Step]_vars

C1_Witness ==
    /\ Len(Results) = 2
    /\ log.trace[1].pipeline = "raised"
    /\ log.trace[2].pipeline = "returned"
    /\ report.error_count = 1

\* C2: at every loop boundary total_samples = |results| and the i-th result
\* carries the i-th sample's question, db_id and gold SQL; a run that returns
\* has exactly one result per sampled example, failed or not.
C2_NoExampleDropped ==
    /\ AtLoopBoundary => report.total_samples = Len(Results)
    /\ AtLoopBoundary => Len(Results) <= Len(samples)
    /\ AtLoopBoundary =>
          \A i \in 1..Len(Results) :
             /\ i <= Len(samples)
             /\ Results[i].question = samples[i].question
             /\ Results[i].db_id = samples[i].db_id
             /\ Results[i].gold_sql = samples[i].query
    /\ pc = "returned" => Len(Results) = Len(samples)

C2_Witness ==
    /\ pc = "returned"
    /\ Len(Results) = 2
    /\ Results[1].error # None
    /\ Results[2].error = None
    /\ Results[1].question # Results[2].question

\* C3: at every loop boundary each counter of the report equals the number
\* of appended results that satisfy its predicate, and llm_judge_total_score
\* the sum of their scores.
RECURSIVE SumScores(_)
SumScores(results) ==
    IF results = <<>> THEN 0
    ELSE results[1].llm_judge_score + SumScores(Tail(results))

C3_IsExact(r) == r.exact_match

C3_IsValid(r) == r.is_valid_sql

C3_HasError(r) == r.error # None

C3_ExecMatched(r) == r.execution_match = Some(TRUE)

C3_JudgeMatched(r) == r.llm_judge_match = Some(TRUE)

C3_CountersMatchResults ==
    AtLoopBoundary =>
       /\ report.exact_match_count = CountTrue([i \in 1..Len(Results) |-> C3_IsExact(Results[i])])
       /\ report.valid_sql_count = CountTrue([i \in 1..Len(Results) |-> C3_IsValid(Results[i])])
       /\ report.error_count = CountTrue([i \in 1..Len(Results) |-> C3_HasError(Results[i])])
       /\ report.execution_match_count = CountTrue([i \in 1..Len(Results) |-> C3_ExecMatched(Results[i])])
       /\ report.llm_judge_match_count = CountTrue([i \in 1..Len(Results) |-> C3_JudgeMatched(Results[i])])
       /\ report.llm_judge_total_score = SumScores(Results)

\* C4: at every loop boundary execution_accuracy is the number of examples
\* whose two queries ran and gave the same rows, over the number of examples
\* whose gold query ran; an example that failed, or whose gold query did not
\* run, is in neither.
C4_Executed(t) == ~t.failed /\ t.execution \in {"pred_failed", "differ", "same"}

C4_Matched(t) == ~t.failed /\ t.execution = "same"

C5_Match == IF ev.op = "evaluate" THEN ev.ret[2] ELSE ev.ret[1]

C6_ConnectionsClosed == conns = 0

\* C7: execute_sql raises nothing, and returns (True, rows, None) or
\* (False, None, message) with a message that is not empty.
C7_TriStateOnly ==
    ev.op = "execute_sql" =>
       /\ ~ev.raised
       /\ \/ ev.ret[1] = TRUE /\ ev.ret[2] # None /\ ev.ret[3] = None
          \/ /\ ev.ret[1] = FALSE /\ ev.ret[2] = None
             /\ ev.ret[3] # None /\ ev.ret[3][1] # ""

\* C8: with the judge enabled, an example whose computed exact_match is true
\* never reaches the judge and its result gets llm_judge_match true and
\* score 5; the judge is called only for an example that is not an exact
\* match and is valid SQL; an example that is neither keeps llm_judge_match
\* unset.
C8_Judged(c) ==
    /\ c.exact_match =>
          /\ ~c.judge_called
          /\ ~c.failed => /\ c.result.llm_judge_match = Some(TRUE)
                          /\ c.result.llm_judge_score = 5
    /\ c.judge_called => ~c.exact_match /\ c.is_valid
    /\ (~c.exact_match /\ ~c.is_valid) =>
          /\ ~c.judge_called
          /\ c.result.llm_judge_match = None

C8_JudgeShortCircuit ==
    self.use_llm_judge =>
       /\ (pc \in {"execution", "append"} /\ cur[1].pipeline = "returned") =>
             C8_Judged(cur[1])
       /\ \A i \in 1..Len(Results) :
             log.trace[i].pipeline = "returned" =>
                C8_Judged([log.trace[i] EXCEPT !.result = Results[i]])

C8_Witness ==
    /\ self.use_llm_judge
    /\ Len(Results) = 2
    /\ log.trace[1].exact_match /\ Results[1].llm_judge_score = 5
    /\ log.trace[2].judge_called /\ Results[2].llm_judge_match = Some(FALSE)

\* C9: with dev.json or tables.json missing, load returns False, the run
\* ends in RuntimeError before sampling, and in it no collaborator is called,
\* no result is appended, nothing is printed and no artifact is written.
C9_InputMissing == ~fs.dev_json \/ ~fs.tables_json

C9_LoadFailureIsFatal ==
    /\ C9_InputMissing =>
          /\ ~load(loader, fs).ok
          /\ pc \in {"idle", "loading", "raised"}
          /\ cur = None /\ log.trace = <<>> /\ Results = <<>>
          /\ ~log.printed /\ log.saved = None /\ out_dir = {}
          /\ loader = NewLoader
    /\ log.raised = Some("RuntimeError") => C9_InputMissing

C9_Witness ==
    /\ pc = "raised"
    /\ log.raised = Some("RuntimeError")
    /\ fs.dev_json /\ ~fs.tables_json
    /\ self.use_execution /\ args.save_results

\* C10: a run goes through loading, sampling, evaluating, reporting and
\* persisting in this order and never back; in the loop one example at a
\* time goes through the pipeline call, the enabled evaluators and the
\* append, and the next pipeline call comes after the append; the report is
\* printed and saved with a result for every sample.
C10_Rank(p) ==
    CASE p = "idle" -> 0
      [] p = "loading" -> 1
      [] p = "sampling" -> 2
      [] p \in {"pipeline", "judge", "execution", "append"} -> 3
      [] p = "reporting" -> 4
      [] p = "persisting" -> 5
      [] p \in {"returned", "raised"} -> 6

C10_State ==
    /\ pc = "pipeline" => cur = None /\ Len(Results) < Len(samples)
    /\ pc \in {"judge", "execution", "append"} =>
          cur # None /\ Len(Results) < Len(samples)
    /\ pc \in {"reporting", "persisting", "returned"} =>
          cur = None /\ Len(Results) = Len(samples)
    /\ Len(log.trace) = Len(Results)
    /\ (log.printed \/ log.saved # None) => Len(Results) = Len(samples)
    /\ log.printed => pc \in {"persisting", "returned"}
    /\ log.saved # None => pc = "returned"
    /\ (pc = "append" /\ ~cur[1].failed) =>
          /\ self.use_llm_judge =>
                \/ cur[1].judge_called
                \/ cur[1].result.llm_judge_match = Some(TRUE)
                \/ ~cur[1].is_valid
          /\ (self.use_execution /\ Truthy(self.databases_dir)) =>
                cur[1].execution # "none"

C10_Step ==
    /\ pc' # pc =>
          \/ C10_Rank(pc') > C10_Rank(pc)
          \/ pc' = "idle" /\ pc \in {"returned", "raised"}
          \/ Evaluating /\ C10_Rank(pc') = 3
    /\ pc = "pipeline" => pc' \in {"pipeline", "judge", "execution", "append"}
    /\ pc = "judge" => pc' \in {"judge", "execution", "append"}
    /\ pc = "execution" => pc' \in {"execution", "append"}
    /\ pc = "append" =>
          \/ pc' = "append"
          \/ Len(report'.results) = Len(Results) + 1
               /\ pc' \in {"pipeline", "reporting", "persisting", "returned"}
    /\ pc' = "pipeline" => pc \in {"pipeline", "sampling", "append"}
    /\ Len(report'.results) = Len(Results) + 1 => pc = "append"

C10_PhasesInOrder == [](C10_State) /\ [][C10_Step]_vars

C10_Witness ==
    /\ pc = "returned"
    /\ log.printed /\ log.saved # None
    /\ Len(Results) = 2
    /\ self.use_llm_judge /\ self.use_execution

\* C11: normalize is idempotent: the normal form of a text is its own normal
\* form, and a text always matches its normal form exactly.
C11_NormalizeIdempotent ==
    /\ ev.op = "normalize" => normalize(ev.ret) = ev.ret
    /\ ev.op = "exact_match" => ev.ret = TRUE

\* C12: the canonical string of a result set is the same for every order of
\* its rows, so results_match is true of a result set and any permutation of
\* its rows; and the rows of the canonical string are in sorted order.
C12_IsPermutation(rows, other) ==
    \E q \in DistinctPositions(Len(rows), Len(rows)) : other = Permute(rows, q)

C12_RowOrderIndependent ==
    /\ (ev.op = "results_match" /\ C12_IsPermutation(ev.gold, ev.pred)) =>
          /\ ev.ret = TRUE
          /\ normalize_results(Some(ev.gold)) = normalize_results(Some(ev.pred))
    /\ (ev.op = "normalize_results" /\ ev.gold # None) =>
          \A q \in DistinctPositions(Len(ev.gold[1]), Len(ev.gold[1])) :
             normalize_results(Some(Permute(ev.gold[1], q))) = ev.ret

C12_Witness ==
    /\ ev.op = "results_match"
    /\ ev.gold = << <<CellA>>, <<CellB>> >>
    /\ ev.pred = << <<CellB>>, <<CellA>> >>
    /\ ev.ret = TRUE

\* C15: the canonical string depends on the order of the columns: exchanging
\* the values of two columns of a row changes it, and the two result sets do
\* not match, whenever the two values differ after canonicalisation (when
\* they are the same the row is unchanged).
C15_ColumnOrderDependent ==
    ev.op = "results_match" =>
       \A k \in 1..Len(ev.gold) :
          (Len(ev.gold[k]) = 2 /\ ev.pred = SwapColumns(ev.gold, k, 1, 2)) =>
             LET differ == NormalizeCell(ev.gold[k][1]) # NormalizeCell(ev.gold[k][2])
             IN  /\ ev.ret = ~differ
                 /\ differ = (normalize_results(Some(ev.gold)) #
                              normalize_results(Some(ev.pred)))

C15_Witness ==
    /\ ev.op = "results_match"
    /\ ev.gold = << <<CellA, CellB>> >>
    /\ ev.pred = << <<CellB, CellA>> >>
    /\ ev.ret = FALSE

\* C13: get_samples called with a count n >= 0 does not fail; it returns
\* min(n, size) examples of the dataset, none of them twice, hence every
\* example once when n is at least the size; with shuffle off these are the
\* first examples in order.
C13_SamplesClamped ==
    (ev.op = "get_samples" /\ ev.gold.n >= 0) =>
       LET data == ev.gold.dev_data
           size == Len(data)
           k    == IF ev.gold.n > size THEN size ELSE ev.gold.n
       IN  /\ ~ev.raised
           /\ Len(ev.ret) = k
           /\ \A i \in 1..Len(ev.ret) : \E j \in 1..size : ev.ret[i] = data[j]
           /\ \A i, j \in 1..Len(ev.ret) : i # j => ev.ret[i] # ev.ret[j]
           /\ ev.gold.n >= size =>
                 \A j \in 1..size : \E i \in 1..Len(ev.ret) : ev.ret[i] = data[j]
           /\ ~ev.gold.shuffle => \A i \in 1..k : ev.ret[i] = data[i]

C13_Witness ==
    /\ ev.op = "get_samples"
    /\ ev.gold.shuffle /\ ev.gold.n = 3 /\ Len(ev.gold.dev_data) = 2
    /\ ~ev.raised
    /\ ev.ret = <<ev.gold.dev_data[2], ev.gold.dev_data[1]>>

\* C18, the schema text as the claim reads it: in the text, found by its
\* pieces.  Starts: where the statements begin; Cols: where the column
\* definitions begin; the statement a column definition is in.
C18_Starts(out) == {p \in 1..Len(out) : out[p] = "CREATE TABLE "}

C18_Cols(out) == {c \in 1..Len(out) : out[c] = "    "}

C18_ColsIn(out, p) ==
    {c \in C18_Cols(out) : p < c /\ \A q \in C18_Starts(out) : q > p => c < q}

\* the columns a table owns, as positions of column_names_original
C18_Owned(info, t) ==
    {k \in 1..Len(info.column_names_original) :
        info.column_names_original[k][1] = t - 1}

\* the statements of the text are those of the tables in `tables`, in
\* increasing table index, each with the columns the table owns in metadata
\* order, typed by the type list or TEXT, PRIMARY KEY on those of the list
C18_StatementsOf(info, out, tables) ==
    LET pks == {info.primary_keys[i] : i \in 1..Len(info.primary_keys)}
        Rank(x, S) == Cardinality({y \in S : y <= x})
    IN  /\ Cardinality(C18_Starts(out)) = Cardinality(tables)
        /\ \A p \in C18_Starts(out) : \A t \in tables :
              Rank(p, C18_Starts(out)) = Rank(t, tables) =>
                 /\ out[p + 1] = info.table_names_original[t]
                 /\ Cardinality(C18_ColsIn(out, p)) = Cardinality(C18_Owned(info, t))
                 /\ \A c \in C18_ColsIn(out, p) : \A k \in C18_Owned(info, t) :
                       Rank(c, C18_ColsIn(out, p)) = Rank(k, C18_Owned(info, t)) =>
                          /\ out[c + 1] = info.column_names_original[k][2]
                          /\ out[c + 3] = IF k <= Len(info.column_types)
                                          THEN "NUMBER" ELSE "TEXT"
                          /\ ((k - 1) \in pks) =
                                (c + 4 <= Len(out) /\ out[c + 4] = " PRIMARY KEY")
        /\ \A k \in C18_Owned(info, 0) : \A p \in 1..Len(out) :
              out[p] # info.column_names_original[k][2]

\* C18 as stated: there is one statement for each table of the metadata.
C18_OneStatementPerTable ==
    ev.op = "build_schema_string" =>
       C18_StatementsOf(ev.gold, ev.ret, 1..Len(ev.gold.table_names_original))

\* C18 amended: there is one statement for each table that owns at least one
\* column (a table without columns gets none), in table-index order, with
\* exactly the table's columns in metadata order, no sentinel column, TEXT for
\* a column past the end of the type list, PRIMARY KEY on exactly the columns
\* of the primary-key list.
C18_SchemaSynthesis ==
    ev.op = "build_schema_string" =>
       C18_StatementsOf(ev.gold, ev.ret,
           {t \in 1..Len(ev.gold.table_names_original) : C18_Owned(ev.gold, t) # {}})

C18_Witness ==
    /\ ev.op = "build_schema_string"
    /\ ev.gold.table_names_original = <<"t", "u">>
    /\ ev.gold.column_names_original =
          << <<-1, "c0">>, <<1, "c1">>, <<0, "c2">> >>
    /\ ev.gold.column_types = <<"number", "number">>
    /\ ev.gold.primary_keys = <<1>>
    /\ ev.ret = <<"CREATE TABLE ", "t", " (\n", "    ", "c2", " ", "TEXT", "\n);",
                  "\n\n",
                  "CREATE TABLE ", "u", " (\n", "    ", "c1", " ", "NUMBER",
                  " PRIMARY KEY", "\n);">>

\* C14: in every state of the report a run goes through, no derived ratio
\* divides by zero, and each is 0.0 when its own denominator (total_samples,
\* the number of executed results, the number of judged results) is 0.
C14_Executed == Cardinality({i \in 1..Len(Results) : Results[i].execution_match # None})

C14_Judged == Cardinality({i \in 1..Len(Results) : Results[i].llm_judge_match # None})

C14_Ratios ==
    << exact_match_accuracy(report), execution_accuracy(report),
       llm_judge_accuracy(report), llm_judge_avg_score(report),
       valid_sql_rate(report), avg_latency_ms(report) >>

C14_ZeroDenominators ==
    /\ \A i \in 1..Len(C14_Ratios) : C14_Ratios[i][2] # 0
    /\ report.total_samples = 0 =>
          /\ exact_match_accuracy(report) = Zero
          /\ valid_sql_rate(report) = Zero
          /\ avg_latency_ms(report) = Zero
    /\ C14_Executed = 0 => execution_accuracy(report) = Zero
    /\ C14_Judged = 0 =>
          /\ llm_judge_accuracy(report) = Zero
          /\ llm_judge_avg_score(report) = Zero

C14_Witness ==
    /\ log.printed
    /\ report.total_samples = 2
    /\ report.valid_sql_count = 1
    /\ C14_Executed = 0 /\ C14_Judged = 0
    /\ valid_sql_rate(report) = Quotient(1, 2)
    /\ execution_accuracy(report) = Zero

\* C16: a run that saves its report writes to a name no artifact of the
\* output directory has yet, so it overwrites none.
C16_Step == (log.saved = None /\ log'.saved # None) => log'.saved[1] \notin out_dir

C16_UniqueArtifactNames == [][C16_Step]_vars

\* C17: a load builds the schema text only of a db_id that has none in the
\* cache: no run builds again what an earlier run on the instance has built.
C17_Step ==
    (pc = "loading" /\ pc' = "sampling") =>
       \A d \in load(loader, fs).built : d \notin DOMAIN loader.db_schemas

C17_SchemaBuiltOnce == [][C17_Step]_vars

\* C19: an exception raised after the pipeline returned (by the exact-match
\* computation, the judge or the execution evaluation) gives the example an
\* error result with predicted_sql "", exact_match and is_valid_sql false,
\* execution_match and llm_judge_match unset and an error text; the step that
\* catches it adds exactly 1 to error_count, the append adds no more, and the
\* loop goes on to the next example or to the end of the run.
C19_ErrorResultShape(r) ==
    /\ r.predicted_sql = <<>>
    /\ ~r.exact_match /\ ~r.is_valid_sql
    /\ r.execution_match = None /\ r.llm_judge_match = None
    /\ r.error # None

C19_LateFailure(c) == c.failed /\ c.pipeline = "returned"

C19_State ==
    /\ \A i \in 1..Len(Results) :
          C19_LateFailure(log.trace[i]) => C19_ErrorResultShape(Results[i])
    /\ (cur # None /\ C19_LateFailure(cur[1])) =>
          C19_ErrorResultShape(cur[1].result) /\ pc = "append"

C19_Step ==
    /\ (cur' # None /\ C19_LateFailure(cur'[1]) /\ pc # "append") =>
          /\ report'.error_count = report.error_count + 1
          /\ report'.results = report.results
    /\ (pc = "append" /\ C19_LateFailure(cur[1]) /\ pc' # "append") =>
          /\ report'.results = Append(report.results, cur[1].result)
          /\ report'.error_count = report.error_count
          /\ pc' \in {"pipeline", "reporting", "persisting", "returned"}
          /\ pc' = "pipeline" <=> Len(report'.results) < Len(samples)

C19_LateFailureIsolated == [](C19_State) /\ [][C19_Step]_vars

C19_Witness ==
    /\ Len(Results) = 2
    /\ log.trace[1].pipeline = "returned"
    /\ log.trace[1].exact_match
    /\ log.trace[1].execution = "raised"
    /\ Results[1].predicted_sql = <<>> /\ ~Results[1].exact_match
    /\ ~log.trace[2].failed
    /\ report.error_count = 1

\* C20.  JudgeOn, ExecOn: the tests of lines 145 and 149 of _evaluate_sample.
C20_JudgeOn(slf) == slf.use_llm_judge

C20_ExecOn(slf) == slf.use_execution /\ Truthy(slf.databases_dir)

C20_Idle == pc = "idle" /\ pc' = "idle"

\* a run called with use_llm_judge=True turns the judge on and no run
\* changes anything else of the configuration; the judge goes off only by
\* enable_llm_judge(False); _use_execution never goes off
C20_SameExecution ==
    /\ self'.use_execution = self.use_execution
    /\ self'.databases_dir = self.databases_dir

C20_JudgeSticky ==
    /\ (pc = "sampling" /\ args.use_llm_judge) =>
          C20_JudgeOn(self') /\ C20_SameExecution
    /\ (pc = "sampling" /\ ~args.use_llm_judge) => self' = self
    /\ pc \notin {"idle", "sampling"} => self' = self
    /\ (C20_JudgeOn(self) /\ ~C20_JudgeOn(self')) => C20_Idle /\ C20_SameExecution
    /\ self.use_execution => self'.use_execution

\* in a run every example that did not fail has gone through the evaluators
\* that are on
C20_Performed ==
    \A i \in 1..Len(Results) :
       ~log.trace[i].failed =>
          /\ C20_JudgeOn(self) =>
                \/ log.trace[i].exact_match /\ Results[i].llm_judge_match = Some(TRUE)
                \/ log.trace[i].judge_called /\ Results[i].llm_judge_match # None
                \/ ~log.trace[i].exact_match /\ ~log.trace[i].is_valid
          /\ C20_ExecOn(self) => log.trace[i].execution # "none"
          /\ ~C20_JudgeOn(self) => Results[i].llm_judge_match = None
          /\ ~C20_ExecOn(self) => log.trace[i].execution = "none"

\* C20 as stated: the judge, once on, stays on until enable_llm_judge(False),
\* and execution evaluation, once on, stays on for good.
C20_OnceEnabledAlways ==
    [][C20_JudgeSticky /\ (C20_ExecOn(self) => C20_ExecOn(self'))]_vars

\* C20 amended: the configuration is sticky across runs: the judge, once on
\* (by enable_llm_judge(True) or by a run called with use_llm_judge=True),
\* stays on, also in runs called with use_llm_judge=False, until
\* enable_llm_judge(False); execution evaluation, once on, stays on until
\* enable_execution_eval is called with an empty databases_dir; and every
\* run performs the evaluators that are on.
C20_StickyConfiguration ==
    /\ [](C20_Performed)
    /\ [][/\ C20_JudgeSticky
          /\ (C20_ExecOn(self) /\ ~C20_ExecOn(self')) =>
                /\ C20_Idle
                /\ self'.use_execution /\ self'.databases_dir = Some(<<>>)
                /\ C20_JudgeOn(self') = C20_JudgeOn(self)]_vars

C20_Witness ==
    /\ out_dir # {} /\ log.saved = None
    /\ Len(Results) = 2
    /\ C20_JudgeOn(self) /\ C20_ExecOn(self)
    /\ log.trace[1].judge_called /\ log.trace[1].execution = "same"
    /\ log.trace[2].exact_match /\ log.trace[2].execution = "gold_failed"

====
